---- MODULE Spec2Model ----
(***************************************************************************)
(* A model of httpcore/_backends/sync.py: SyncSocketStream (read, write,   *)
(* close, is_connection_dropped over one socket guarded by a read lock and *)
(* a write lock) and SyncBackend.open_tcp_stream.                          *)
(*                                                                         *)
(* The socket is modelled by what the Python socket object does: a timeout *)
(* of None blocks, a timeout of 0 makes the socket non-blocking, a         *)
(* positive timeout raises socket.timeout when it elapses, and every       *)
(* operation on a closed socket object raises OSError (EBADF).             *)
(***************************************************************************)
EXTENDS Integers, Sequences, FiniteSets, TLC

\* ------------------------------------------------------------------ bounds
MaxLen == 2        \* longest write buffer, largest max_bytes of a read
MaxCalls == 3      \* calls one thread issues, one after the other
MaxRaceCalls == 2  \* calls two threads issue between them

Threads == {"t1", "t2"}
Free == "free"

\* A deadline: None (no entry or a null entry: block), 0, or a positive duration.
None == -1
Deadlines == {None, 0, 1}

\* The far side of the connection: a loopback peer that accepts every byte
\* and sends it back, or a peer that never sends and never accepts; later the
\* peer may have closed its end ("closed") or the connection been reset.
Peers == {"echo", "stalled"}

Min(a, b) == IF a <= b THEN a ELSE b
Take(s, k) == SubSeq(s, 1, k)
Drop(s, k) == SubSeq(s, k + 1, Len(s))

\* The buffer of call `id` of length `len`: every byte of a behaviour is
\* distinct, so a gap, a repetition or a reordering shows in the bytes.
Payload(id, len) == [i \in 1..len |-> <<id, i>>]

\* ------------------------------------------------------- exception mapping
\* The platform's exception classes: everything but ValueError is an OSError
\* (socket.error is OSError), and socket.timeout is one of them.
OSErrors ==
    {"OSError", "socket.timeout", "BlockingIOError", "ConnectionResetError",
     "BrokenPipeError", "ConnectionRefusedError", "SSLError"}

IsInstance(exc, cls) ==
    \/ exc = cls
    \/ cls = "socket.error" /\ exc \in OSErrors

\* map_exceptions(map): the first entry of the map, in the order it was
\* written, whose class the exception is an instance of decides the kind
\* raised; an exception no entry matches is raised unchanged.
RECURSIVE MapFrom(_, _, _)
MapFrom(map, exc, i) ==
    IF i > Len(map) THEN exc
    ELSE IF IsInstance(exc, map[i][1]) THEN map[i][2]
    ELSE MapFrom(map, exc, i + 1)

map_exceptions(map, exc) == MapFrom(map, exc, 1)

ReadExcMap ==
    << <<"socket.timeout", "ReadTimeout">>, <<"socket.error", "ReadError">> >>

WriteExcMap ==
    << <<"socket.timeout", "WriteTimeout">>, <<"socket.error", "WriteError">> >>

CloseExcMap == << <<"socket.error", "CloseError">> >>

ConnectExcMap ==
    << <<"socket.timeout", "ConnectTimeout">>, <<"socket.error", "ConnectError">> >>

\* ------------------------------------------------------------------- state
VARIABLES
    nopen,          \* open_tcp_stream calls so far; the current handle's id
    conn,           \* state of the current connection
    ssl,            \* the running open was given an ssl_context
    openResult,     \* outcome of the latest open_tcp_stream call
    fdOpen,         \* ids of the handles whose descriptor is not released
    sockTimeout,    \* timeout set on the current socket object
    read_lock,      \* holder of SyncSocketStream.read_lock, or Free
    write_lock,     \* holder of SyncSocketStream.write_lock, or Free
    pc,             \* position of each thread inside its call
    call,           \* the call each thread is running
    last,           \* the latest Stream call completed and its outcome
    callers,        \* the threads that call the Stream
    budget,         \* how many calls they issue between them
    ncalls,         \* calls issued so far; the id of the latest
    peer,           \* the far side of the connection
    inbuf,          \* bytes pending on the handle
    wire,           \* every byte the transport accepted, in order
    rcvd,           \* bytes returned by the successful reads, in order
    written,        \* buffers of the successful writes, in order, joined
    wfailed         \* some write failed

vars ==
    <<nopen, conn, ssl, openResult, fdOpen, sockTimeout, read_lock, write_lock,
      pc, call, last, callers, budget, ncalls, peer, inbuf, wire, rcvd, written, wfailed>>

connVars == <<nopen, conn, ssl, openResult>>
lockVars == <<read_lock, write_lock>>
callVars == <<callers, budget, ncalls>>
histVars == <<wire, rcvd, written, wfailed>>

NoCall ==
    [op |-> "none", id |-> 0, d |-> None, n |-> 0, data |-> <<>>,
     orig |-> <<>>, acc |-> <<>>, sends |-> 0, post |-> FALSE]

NoResult ==
    [op |-> "none", kind |-> "none", d |-> None, post |-> FALSE,
     empty |-> FALSE, full |-> FALSE, sends |-> 0]

\* The socket object of the Stream has been closed (its descriptor is -1).
sockClosed == nopen \notin fdOpen

Init ==
    /\ nopen = 0
    /\ conn = "unconnected"
    /\ ssl = FALSE
    /\ openResult = "none"
    /\ fdOpen = {}
    /\ sockTimeout = None
    /\ read_lock = Free
    /\ write_lock = Free
    /\ pc = [t \in Threads |-> "idle"]
    /\ call = [t \in Threads |-> NoCall]
    /\ last = NoResult
    /\ callers = {"t1"}
    /\ budget = MaxCalls
    /\ ncalls = 0
    /\ peer \in Peers
    /\ inbuf = <<>>
    /\ wire = <<>>
    /\ rcvd = <<>>
    /\ written = <<>>
    /\ wfailed = FALSE

\* ------------------------------------------------ SyncBackend.open_tcp_stream
\* What sock.connect can raise under the timeout set on the socket: a refused
\* connection always; BlockingIOError (EINPROGRESS) on a non-blocking socket,
\* which a timeout of 0 makes; socket.timeout when a positive timeout elapses.
ConnectFailures(d) ==
    IF d = 0 THEN {"BlockingIOError"}
    ELSE IF d = None THEN {"ConnectionRefusedError"}
    ELSE {"ConnectionRefusedError", "socket.timeout"}

\* What ssl_context.wrap_socket can raise: a handshake or verification failure
\* (SSLError), or socket.timeout when a positive timeout elapses.
HandshakeFailures(d) ==
    IF d = None THEN {"SSLError"} ELSE {"SSLError", "socket.timeout"}

\* sock = socket.socket(...); sock.settimeout(connect_timeout)
OpenCall(ctx, d) ==
    /\ conn \in {"unconnected", "failed"}
    /\ ncalls < budget
    /\ ncalls' = ncalls + 1
    /\ nopen' = nopen + 1
    /\ fdOpen' = fdOpen \cup {nopen + 1}
    /\ sockTimeout' = d
    /\ ssl' = ctx
    /\ conn' = "connecting"
    /\ openResult' = "none"
    /\ UNCHANGED <<lockVars, pc, call, last, callers, budget, peer, inbuf,
                   histVars>>

\* if ssl_context is not None: the state that follows a connect that returned.
AfterConnectSkipsHandshake(ctx) == "open"

AfterConnect(ctx) == IF ctx THEN "encrypting" ELSE "open"

\* sock.connect(...) returns: the handshake follows when an ssl_context was
\* given, otherwise the Stream is returned.
ConnectOk ==
    /\ conn = "connecting"
    /\ sockTimeout # 0
    /\ conn' = AfterConnect(ssl)
    /\ openResult' = IF ssl THEN "none" ELSE "ok"
    /\ UNCHANGED <<nopen, ssl, fdOpen, sockTimeout, lockVars, pc, call, last,
                   callVars, peer, inbuf, histVars>>

\* sock.connect(...) raises: the exception leaves open_tcp_stream through
\* map_exceptions; nothing on this path closes the socket.
ConnectFail ==
    /\ conn = "connecting"
    /\ \E exc \in ConnectFailures(sockTimeout) :
          openResult' = map_exceptions(ConnectExcMap, exc)
    /\ conn' = "failed"
    /\ ssl' = FALSE
    /\ UNCHANGED <<nopen, fdOpen, sockTimeout, lockVars, pc, call, last,
                   callVars, peer, inbuf, histVars>>

\* ssl_context.wrap_socket(sock, ...) returns the encrypted socket.
HandshakeOk ==
    /\ conn = "encrypting"
    /\ conn' = "open"
    /\ openResult' = "ok"
    /\ ssl' = FALSE
    /\ UNCHANGED <<nopen, fdOpen, sockTimeout, lockVars, pc, call, last,
                   callVars, peer, inbuf, histVars>>

\* ssl_context.wrap_socket(sock, ...) raises; wrap_socket closes the socket it
\* was given before it raises.
HandshakeFail ==
    /\ conn = "encrypting"
    /\ \E exc \in HandshakeFailures(sockTimeout) :
          openResult' = map_exceptions(ConnectExcMap, exc)
    /\ conn' = "failed"
    /\ fdOpen' = fdOpen \ {nopen}
    /\ ssl' = FALSE
    /\ UNCHANGED <<nopen, sockTimeout, lockVars, pc, call, last, callVars,
                   peer, inbuf, histVars>>

\* The handles no Stream owns: those of the opens that failed.
Orphans == {h \in fdOpen : h < nopen \/ (h = nopen /\ conn = "failed")}

\* The runtime finalises a socket object nothing refers to any more, at a
\* time of its choosing after the failed call has raised.
CollectGarbage ==
    /\ \E h \in Orphans : fdOpen' = fdOpen \ {h}
    /\ UNCHANGED <<connVars, sockTimeout, lockVars, pc, call, last, callVars,
                   peer, inbuf, histVars>>

\* --------------------------------------------------------- SyncSocketStream
\* A Stream was returned to the caller.
StreamExists == conn \in {"open", "closed"}

\* Idle threads are interchangeable: a new call goes to the first idle one.
Before(t) == IF t = "t2" THEN {"t1"} ELSE {}

CanCall(t) ==
    /\ StreamExists /\ t \in callers /\ pc[t] = "idle" /\ ncalls < budget
    /\ \A u \in Before(t) : pc[u] # "idle"

Begin(t, where, c) ==
    /\ ncalls' = ncalls + 1
    /\ UNCHANGED <<callers, budget>>
    /\ pc' = [pc EXCEPT ![t] = where]
    /\ call' = [call EXCEPT ![t] = [c EXCEPT !.id = ncalls + 1,
                                            !.post = (conn = "closed")]]

\* The call of thread t leaves with outcome `kind`.
Finish(t, kind) ==
    /\ pc' = [pc EXCEPT ![t] = "idle"]
    /\ call' = [call EXCEPT ![t] = NoCall]
    /\ last' = [op |-> call[t].op, kind |-> kind, d |-> call[t].d,
                post |-> call[t].post, empty |-> (call[t].orig = <<>>),
                full |-> (call[t].acc = call[t].orig), sends |-> call[t].sends]

\* `with self.read_lock:`, `with self.write_lock:` release the lock however
\* the block is left, with outcome `kind`.
ReadLockKeptOnError(t, kind) == IF kind = "ok" THEN Free ELSE t

ReadLockAfterExit(t, kind) == Free

WriteLockKeptOnError(t, kind) == IF kind = "ok" THEN Free ELSE t

WriteLockAfterExit(t, kind) == Free

CloseLockKeptOnError(t, kind) == IF kind = "ok" THEN Free ELSE t

CloseLockAfterExit(t, kind) == Free

\* ---- the socket object, as the Stream's calls see it
\* sock.settimeout(d) on a closed socket object raises OSError (EBADF).
SetTimeoutRaises == sockClosed

\* The outcomes of sock.recv(n) now: the exception raised, or the bytes
\* returned. No outcome means the call blocks.
RecvOutcomes(n) ==
    IF sockClosed THEN {[exc |-> "OSError", k |-> 0]}
    ELSE IF peer = "reset" THEN {[exc |-> "ConnectionResetError", k |-> 0]}
    ELSE IF inbuf # <<>> THEN {[exc |-> "none", k |-> k] : k \in 1..Min(n, Len(inbuf))}
    ELSE IF peer = "closed" THEN {[exc |-> "none", k |-> 0]}
    ELSE IF sockTimeout = None THEN {}
    ELSE IF sockTimeout = 0 THEN {[exc |-> "BlockingIOError", k |-> 0]}
    ELSE {[exc |-> "socket.timeout", k |-> 0]}

\* The outcomes of sock.send(data) now: the exception raised, or the number
\* of bytes the transport accepted (at least one, possibly not all).
SendOutcomes(data) ==
    IF sockClosed THEN {[exc |-> "OSError", k |-> 0]}
    ELSE IF peer = "reset" THEN {[exc |-> "ConnectionResetError", k |-> 0]}
    ELSE IF peer = "closed" THEN {[exc |-> "BrokenPipeError", k |-> 0]}
    ELSE IF peer = "echo" THEN {[exc |-> "none", k |-> k] : k \in 1..Len(data)}
    ELSE IF sockTimeout = None THEN {}
    ELSE IF sockTimeout = 0 THEN {[exc |-> "BlockingIOError", k |-> 0]}
    ELSE {[exc |-> "socket.timeout", k |-> 0]}

\* ---- read(n, timeout)
\* A thread calls read and waits for the read lock.
ReadCall(t) ==
    /\ CanCall(t)
    /\ Begin(t, "r_lock", [NoCall EXCEPT !.op = "read"])
    /\ UNCHANGED <<connVars, fdOpen, sockTimeout, lockVars, last, peer,
                   inbuf, histVars>>

\* with self.read_lock: the lock is taken when no thread holds it.
ReadWaitsForWriter == read_lock = Free /\ write_lock = Free

ReadLockAvailable == read_lock = Free

\* read_timeout = timeout.get("read"); with self.read_lock:
\* The arguments n and timeout["read"] of the call are drawn here, where the
\* call first acts on them.
ReadAcquire(t, n, d) ==
    /\ pc[t] = "r_lock"
    /\ ReadLockAvailable
    /\ read_lock' = t
    /\ call' = [call EXCEPT ![t].n = n, ![t].d = d]
    /\ pc' = [pc EXCEPT ![t] = "r_settimeout"]
    /\ UNCHANGED <<connVars, fdOpen, sockTimeout, write_lock, last, callVars,
                   peer, inbuf, histVars>>

\* self.sock.settimeout(read_timeout): the timeout the socket has for the recv
\* that follows, `cur` being the one an earlier call left on it.
ReadDeadlineKeptWhenNone(c, cur) == IF c.d = None THEN cur ELSE c.d

ReadDeadlineApplied(c, cur) == c.d

\* self.sock.settimeout(read_timeout)
ReadSetTimeout(t) ==
    /\ pc[t] = "r_settimeout"
    /\ IF SetTimeoutRaises
       THEN LET kind == map_exceptions(ReadExcMap, "OSError") IN
            /\ Finish(t, kind)
            /\ read_lock' = ReadLockAfterExit(t, kind)
            /\ UNCHANGED sockTimeout
       ELSE /\ sockTimeout' = ReadDeadlineApplied(call[t], sockTimeout)
            /\ pc' = [pc EXCEPT ![t] = "r_recv"]
            /\ UNCHANGED <<call, last, read_lock>>
    /\ UNCHANGED <<connVars, fdOpen, write_lock, callVars, peer, inbuf, histVars>>

\* How read ends on outcome o of its recv: what recv returned is returned as
\* it is, what it raised goes through the read's map.
RecvKindEmptyIsError(o) ==
    IF o.exc = "none" /\ o.k > 0 THEN "ok"
    ELSE IF o.exc = "none" THEN "ReadError"
    ELSE map_exceptions(ReadExcMap, o.exc)

RecvKind(o) ==
    IF o.exc = "none" THEN "ok" ELSE map_exceptions(ReadExcMap, o.exc)

\* return self.sock.recv(n)
ReadRecv(t) ==
    /\ pc[t] = "r_recv"
    /\ \E o \in RecvOutcomes(call[t].n) :
          LET kind == RecvKind(o) IN
          /\ Finish(t, kind)
          /\ read_lock' = ReadLockAfterExit(t, kind)
          /\ inbuf' = Drop(inbuf, o.k)
          /\ rcvd' = rcvd \o Take(inbuf, o.k)
    /\ UNCHANGED <<connVars, fdOpen, sockTimeout, write_lock, callVars, peer,
                   wire, written, wfailed>>

\* ---- write(data, timeout)
\* data = data[n:]
RestSkipsOne(data, n) == Drop(data, n + 1)

Rest(data, n) == Drop(data, n)

\* while data: the loop ends when nothing is left of the call's data.
LoopEndsAfterOneSend(c) == c.data = <<>> \/ c.sends > 0

LoopEnds(c) == c.data = <<>>

\* self.sock.settimeout(write_timeout), inside the loop: the timeout the
\* socket has for the send that follows, `cur` being the one it had.
WriteDeadlineOnlyBeforeFirstSend(c, cur) == IF c.sends = 0 THEN c.d ELSE cur

WriteDeadlineApplied(c, cur) == c.d

\* A thread calls write and waits for the write lock.
WriteCall(t) ==
    /\ CanCall(t)
    /\ Begin(t, "w_lock", [NoCall EXCEPT !.op = "write"])
    /\ UNCHANGED <<connVars, fdOpen, sockTimeout, lockVars, last, peer,
                   inbuf, histVars>>

\* with self.write_lock: the lock is taken when no thread holds it.
WriteLockTakenAnyway == TRUE

WriteLockAvailable == write_lock = Free

\* write_timeout = timeout.get("write"); with self.write_lock:
\* The arguments data (of length len) and timeout["write"] are drawn here.
WriteAcquire(t, len, d) ==
    /\ pc[t] = "w_lock"
    /\ WriteLockAvailable
    /\ write_lock' = t
    /\ call' = [call EXCEPT ![t].d = d,
                            ![t].data = Payload(call[t].id, len),
                            ![t].orig = Payload(call[t].id, len)]
    /\ pc' = [pc EXCEPT ![t] = "w_loop"]
    /\ UNCHANGED <<connVars, fdOpen, sockTimeout, read_lock, last, callVars,
                   peer, inbuf, histVars>>

\* while data: self.sock.settimeout(write_timeout)
\* With nothing left to send the loop ends and write returns.
WriteLoop(t) ==
    /\ pc[t] = "w_loop"
    /\ IF LoopEnds(call[t])
       THEN /\ Finish(t, "ok")
            /\ write_lock' = WriteLockAfterExit(t, "ok")
            /\ written' = written \o call[t].orig
            /\ UNCHANGED <<sockTimeout, wfailed>>
       ELSE IF SetTimeoutRaises
       THEN LET kind == map_exceptions(WriteExcMap, "OSError") IN
            /\ Finish(t, kind)
            /\ write_lock' = WriteLockAfterExit(t, kind)
            /\ wfailed' = TRUE
            /\ UNCHANGED <<sockTimeout, written>>
       ELSE /\ sockTimeout' = WriteDeadlineApplied(call[t], sockTimeout)
            /\ pc' = [pc EXCEPT ![t] = "w_send"]
            /\ UNCHANGED <<call, last, write_lock, written, wfailed>>
    /\ UNCHANGED <<connVars, fdOpen, read_lock, callVars, peer, inbuf, wire,
                   rcvd>>

\* n = self.sock.send(data); data = data[n:]
WriteSend(t) ==
    /\ pc[t] = "w_send"
    /\ \E o \in SendOutcomes(call[t].data) :
          IF o.exc = "none"
          THEN /\ call' = [call EXCEPT ![t].data = Rest(call[t].data, o.k),
                                       ![t].acc = @ \o Take(call[t].data, o.k),
                                       ![t].sends = @ + 1]
               /\ pc' = [pc EXCEPT ![t] = "w_loop"]
               /\ wire' = wire \o Take(call[t].data, o.k)
               /\ inbuf' = inbuf \o Take(call[t].data, o.k)
               /\ UNCHANGED <<last, write_lock, wfailed>>
          ELSE LET kind == map_exceptions(WriteExcMap, o.exc) IN
               /\ Finish(t, kind)
               /\ write_lock' = WriteLockAfterExit(t, kind)
               /\ wfailed' = TRUE
               /\ UNCHANGED <<wire, inbuf>>
    /\ UNCHANGED <<connVars, fdOpen, sockTimeout, read_lock, callVars, peer,
                   rcvd, written>>

\* ---- close()
CloseCall(t) ==
    /\ CanCall(t)
    /\ Begin(t, "c_lock", [NoCall EXCEPT !.op = "close"])
    /\ UNCHANGED <<connVars, fdOpen, sockTimeout, lockVars, last, peer,
                   inbuf, histVars>>

\* with self.write_lock: the lock is taken when no thread holds it.
CloseLockTakenAnyway == TRUE

CloseLockAvailable == write_lock = Free

\* with self.write_lock:
CloseAcquire(t) ==
    /\ pc[t] = "c_lock"
    /\ CloseLockAvailable
    /\ write_lock' = t
    /\ pc' = [pc EXCEPT ![t] = "c_close"]
    /\ UNCHANGED <<connVars, fdOpen, sockTimeout, read_lock, call, last,
                   callVars, peer, inbuf, histVars>>

\* The outcomes of sock.close(): on a socket object already closed it does
\* nothing and returns; otherwise the descriptor is released, and the
\* platform's close may still report an error.
CloseOutcomes == IF sockClosed THEN {"none"} ELSE {"none", "OSError"}

\* The descriptors left open by self.sock.close() on the Stream's socket.
FdsAfterCloseForgotten(fds) == fds

FdsAfterClose(fds) == fds \ {nopen}

\* self.sock.close()
CloseSock(t) ==
    /\ pc[t] = "c_close"
    /\ \E exc \in CloseOutcomes :
          LET kind == IF exc = "none" THEN "ok"
                      ELSE map_exceptions(CloseExcMap, exc) IN
          /\ Finish(t, kind)
          /\ write_lock' = CloseLockAfterExit(t, kind)
    /\ fdOpen' = FdsAfterClose(fdOpen)
    /\ conn' = "closed"
    /\ UNCHANGED <<nopen, ssl, openResult, sockTimeout, read_lock, callVars,
                   peer, inbuf, histVars>>

\* ---- is_connection_dropped()
\* select.select([self.sock], [], [], 0): a closed socket object has
\* descriptor -1, which select refuses with ValueError; otherwise the socket
\* is readable when bytes, the peer's end of stream or an error are pending.
SelectIgnoresEndOfStream ==
    IF sockClosed THEN "ValueError"
    ELSE IF inbuf # <<>> THEN "true"
    ELSE "false"

SelectReadable ==
    IF sockClosed THEN "ValueError"
    ELSE IF inbuf # <<>> \/ peer \in {"closed", "reset"} THEN "true"
    ELSE "false"

\* rready, _, _ = select.select(...); return bool(rready)
\* The call takes no lock and is one step.
IsConnectionDropped(t) ==
    /\ CanCall(t)
    /\ ncalls' = ncalls + 1
    /\ UNCHANGED <<callers, budget>>
    /\ last' = [NoResult EXCEPT !.op = "is_connection_dropped",
                                 !.kind = SelectReadable,
                                 !.post = (conn = "closed")]
    /\ UNCHANGED <<connVars, fdOpen, sockTimeout, lockVars, pc, call, peer,
                   inbuf, histVars>>

\* ---- the peer and the network
\* The peer closes its end of the connection.
PeerClose ==
    /\ conn = "open"
    /\ peer \in Peers
    /\ peer' = "closed"
    /\ UNCHANGED <<connVars, fdOpen, sockTimeout, lockVars, pc, call, last,
                   callVars, inbuf, histVars>>

\* The connection is reset.
ConnectionReset ==
    /\ conn = "open"
    /\ peer # "reset"
    /\ peer' = "reset"
    /\ UNCHANGED <<connVars, fdOpen, sockTimeout, lockVars, pc, call, last,
                   callVars, inbuf, histVars>>

\* The calls on the Stream, and what the peer and the network do to it.
NextStream ==
    \/ \E t \in Threads : ReadCall(t)
    \/ \E t \in Threads, n \in 1..MaxLen, d \in Deadlines : ReadAcquire(t, n, d)
    \/ \E t \in Threads : ReadSetTimeout(t)
    \/ \E t \in Threads : ReadRecv(t)
    \/ \E t \in Threads : WriteCall(t)
    \/ \E t \in Threads, len \in 0..MaxLen, d \in Deadlines : WriteAcquire(t, len, d)
    \/ \E t \in Threads : WriteLoop(t)
    \/ \E t \in Threads : WriteSend(t)
    \/ \E t \in Threads : CloseCall(t)
    \/ \E t \in Threads : CloseAcquire(t)
    \/ \E t \in Threads : CloseSock(t)
    \/ \E t \in Threads : IsConnectionDropped(t)
    \/ PeerClose
    \/ ConnectionReset

\* The calls of the Connector, and the runtime's finalisation of what they drop.
NextOpen ==
    \/ \E ctx \in BOOLEAN, d \in Deadlines : OpenCall(ctx, d)
    \/ ConnectOk
    \/ ConnectFail
    \/ HandshakeOk
    \/ HandshakeFail
    \/ CollectGarbage

Next == NextOpen \/ NextStream

\* The whole life of a connection, from open_tcp_stream on.
Spec == Init /\ [][Next]_vars

\* SyncSocketStream(sock): the Stream as constructed over a connected socket,
\* called by one thread, or by two threads at once.
InitStream ==
    /\ nopen = 1
    /\ conn = "open"
    /\ ssl = FALSE
    /\ openResult = "ok"
    /\ fdOpen = {1}
    /\ sockTimeout = None
    /\ read_lock = Free
    /\ write_lock = Free
    /\ pc = [t \in Threads |-> "idle"]
    /\ call = [t \in Threads |-> NoCall]
    /\ last = NoResult
    /\ \/ callers = {"t1"} /\ budget = MaxCalls
       \/ callers = Threads /\ budget = MaxRaceCalls
    /\ ncalls = 0
    /\ peer \in Peers
    /\ inbuf = <<>>
    /\ wire = <<>>
    /\ rcvd = <<>>
    /\ written = <<>>
    /\ wfailed = FALSE

\* The life of one Stream.
SpecStream == InitStream /\ [][NextStream]_vars

\* ------------------------------------------------------------------ claims
ReadCS == {"r_settimeout", "r_recv"}
WriteCS == {"w_loop", "w_send", "c_close"}
Transfers == {"read", "write"}
ErrorOf(op) == IF op = "read" THEN "ReadError" ELSE "WriteError"
TimeoutOf(op) == IF op = "read" THEN "ReadTimeout" ELSE "WriteTimeout"

WireIds == [i \in 1..Len(wire) |-> wire[i][1]]

\* C2: the bytes of one write call are never sent between bytes of another:
\* the sends of two write calls are never interspersed.
C2_WritesNotInterleaved ==
    \A i, j, k \in 1..Len(wire) :
        (i < j /\ j < k /\ WireIds[i] = WireIds[k]) => WireIds[j] = WireIds[i]

\* A second write waits for the lock while the first is between two sends.
C2_Witness ==
    \E t, u \in Threads :
        /\ pc[t] = "w_loop" /\ call[t].acc # <<>> /\ call[t].data # <<>>
        /\ pc[u] = "w_lock"

\* C3: what the transport accepted from a write, send call after send call,
\* joined with what is left to send, is the call's data; so when write
\* returns successfully the accepted ranges are the data, once and in order.
C3_AcceptedIsData ==
    /\ \A t \in Threads :
          pc[t] \in {"w_loop", "w_send"} =>
              call[t].acc \o call[t].data = call[t].orig
    /\ (last.op = "write" /\ last.kind = "ok") => last.full

\* A write of MaxLen bytes has returned after more than one send call.
C3_Witness ==
    /\ last.op = "write" /\ last.kind = "ok" /\ last.sends > 1 /\ last.full
    /\ Len(written) = MaxLen

\* The kinds each operation may end with, success included.
KindsOf(op) ==
    IF op = "read" THEN {"ok", "ReadTimeout", "ReadError"}
    ELSE IF op = "write" THEN {"ok", "WriteTimeout", "WriteError"}
    ELSE IF op = "close" THEN {"ok", "CloseError"}
    ELSE IF op = "is_connection_dropped" THEN {"true", "false"}
    ELSE {"none"}

\* A transfer that ended while the handle was open and intact, the peer
\* neither sending nor accepting: all that can have stopped it is its deadline.
StoppedByDeadline ==
    /\ callers = {"t1"}
    /\ last.op \in Transfers /\ last.kind # "ok"
    /\ last.d # None
    /\ peer = "stalled" /\ ~sockClosed

\* C4: each of the five operations ends only with a kind of its own phase and
\* lets no raw error through, and a deadline that expires gives the phase's
\* timeout kind.
C4_OnlySemanticKinds ==
    /\ last.kind \in KindsOf(last.op)
    /\ openResult \in {"none", "ok", "ConnectTimeout", "ConnectError"}
    /\ StoppedByDeadline => last.kind = TimeoutOf(last.op)

\* C5: is_connection_dropped returns a boolean in every state of the Stream,
\* the closed one included.
C5_AlwaysABoolean ==
    last.op = "is_connection_dropped" => last.kind \in {"true", "false"}

\* C6: when open has failed, no Stream exists and the handle the call
\* created has been released.
C6_FailedOpenReleasesHandle ==
    openResult \in {"ConnectTimeout", "ConnectError"} =>
        (~StreamExists /\ nopen \notin fdOpen)

\* C7: a read or write with a deadline of 0 against a peer that never sends
\* and never accepts fails with the timeout kind of its phase.
C7_ZeroDeadlineTimesOut ==
    (StoppedByDeadline /\ last.d = 0) => last.kind = TimeoutOf(last.op)

\* A thread holds a lock exactly while it is inside the block the lock guards.
LocksMatchBlocks ==
    \A t \in Threads :
        /\ read_lock = t <=> pc[t] \in ReadCS
        /\ write_lock = t <=> pc[t] \in WriteCS

\* A read or write of thread t fails in this step.
TransferFails(t) ==
    /\ call[t].op \in Transfers
    /\ pc'[t] = "idle"
    /\ last'.kind # "ok"

\* C8: a call that has left holds no lock, whichever way it left; and the
\* step in which a read or write fails frees that call's lock, leaves the
\* other lock as it was and does not close the handle.
C8_LocksReleasedOnEveryExit ==
    /\ []LocksMatchBlocks
    /\ [][\A t \in Threads : TransferFails(t) =>
            /\ fdOpen' = fdOpen /\ conn' = conn
            /\ call[t].op = "read" => (read_lock' = Free /\ write_lock' = write_lock)
            /\ call[t].op = "write" => (write_lock' = Free /\ read_lock' = read_lock)
         ]_vars

\* A read has timed out; both locks are free and the handle is still open.
C8_Witness ==
    /\ last.op = "read" /\ last.kind = "ReadTimeout"
    /\ read_lock = Free /\ write_lock = Free
    /\ conn = "open" /\ ~sockClosed

\* C9: every byte the transport accepted is pending or was returned by a
\* read, in order; so once every write has returned successfully and the
\* reads have drained the handle, the bytes read are the buffers written.
C9_RoundTrip ==
    /\ rcvd \o inbuf = wire
    /\ (/\ ~wfailed
        /\ \A t \in Threads : call[t].op # "write"
        /\ inbuf = <<>>) => rcvd = written

\* One caller has written and then read everything back in several reads.
C9_Witness ==
    /\ callers = {"t1"} /\ peer = "echo"
    /\ ncalls = MaxCalls /\ last.op = "read" /\ last.kind = "ok"
    /\ Len(written) = MaxLen /\ rcvd = written /\ inbuf = <<>>

\* The close of thread t returns or raises in this step.
CloseEnds(t) == pc[t] = "c_close" /\ pc'[t] = "idle"

\* C10: a close that finds the handle already closed, called after the first
\* or racing with it, returns successfully as a no-op; no close raises a raw
\* error; and the write lock is free once the close has left.
C10_SecondCloseIsNoOp ==
    /\ [](last.op = "close" => last.kind \in {"ok", "CloseError"})
    /\ []((last.op = "close" /\ last.post) => last.kind = "ok")
    /\ [](\A t \in Threads : write_lock = t => pc[t] \in WriteCS)
    /\ [][\A t \in Threads : CloseEnds(t) =>
            /\ sockClosed => last'.kind = "ok"
            /\ write_lock' = Free
         ]_vars

\* A close called after an earlier close has returned, and the lock is free.
C10_Witness ==
    /\ last.op = "close" /\ last.post /\ last.kind = "ok"
    /\ write_lock = Free /\ conn = "closed"

\* This step is a whole is_connection_dropped call.
ProbeStep == StreamExists /\ ncalls' # ncalls /\ pc' = pc

\* C11: is_connection_dropped returns false while the peer is idle and nothing
\* is pending, returns true once the peer has closed its end with nothing
\* pending, and in every case leaves the pending bytes, and with them what a
\* following read returns, as they were.
C11_ProbeConsumesNothing ==
    [][ProbeStep =>
          /\ inbuf' = inbuf /\ peer' = peer
          /\ fdOpen' = fdOpen /\ sockTimeout' = sockTimeout
          /\ \A n \in 1..MaxLen : RecvOutcomes(n)' = RecvOutcomes(n)
          /\ (~sockClosed /\ inbuf = <<>> /\ peer \in Peers) => last'.kind = "false"
          /\ (~sockClosed /\ inbuf = <<>> /\ peer = "closed") => last'.kind = "true"
       ]_vars

\* The probe has returned true on an open handle whose peer closed its end.
C11_Witness ==
    /\ last.op = "is_connection_dropped" /\ last.kind = "true"
    /\ peer = "closed" /\ inbuf = <<>> /\ conn = "open"

\* sock.connect raises in this step; ssl_context.wrap_socket raises in this step.
ConnectStepFails == conn = "connecting" /\ conn' = "failed"
HandshakeStepFails == conn = "encrypting" /\ conn' = "failed"

\* C12: an open whose connection is refused fails with ConnectError; an open
\* whose connect deadline elapses before the connection is established fails
\* with ConnectTimeout and never with ConnectError; an open whose handshake
\* or identity verification fails fails with ConnectError.
C12_OpenFailureKinds ==
    [][/\ ConnectStepFails =>
             openResult' \in {"ConnectError", "ConnectTimeout"}
       /\ (ConnectStepFails /\ sockTimeout = None) => openResult' = "ConnectError"
       /\ (ConnectStepFails /\ sockTimeout = 0) => openResult' = "ConnectTimeout"
       /\ HandshakeStepFails =>
             openResult' \in {"ConnectError", "ConnectTimeout"}
       /\ (HandshakeStepFails /\ sockTimeout = None) => openResult' = "ConnectError"
      ]_vars

\* C13: with one reader and one writer on the Stream, the timeout set on the
\* handle when a read issues its recv is that read's `read` deadline, and the
\* timeout set when a write issues a send is that write's `write` deadline.
C13_TransportRunsUnderOwnDeadline ==
    \A t \in Threads :
        /\ pc[t] = "r_recv" => sockTimeout = call[t].d
        /\ pc[t] = "w_send" => sockTimeout = call[t].d

\* The steps of one connection's state; "failed" is an open that raised.
Transitions ==
    {<<"unconnected", "connecting">>, <<"connecting", "encrypting">>,
     <<"connecting", "open">>, <<"encrypting", "open">>, <<"open", "closed">>,
     <<"connecting", "failed">>, <<"encrypting", "failed">>}

\* C14: a connection goes unconnected -> connecting -> [encrypting] -> open ->
\* closed without skipping a state; it enters encrypting exactly when an
\* encryption context was supplied, and only from a connect that succeeded;
\* the caller holds a Stream only once the connection is open; and a closed
\* connection stays closed.
C14_ConnectionStateMachine ==
    /\ [](StreamExists <=> openResult = "ok")
    /\ [](pc # [t \in Threads |-> "idle"] => StreamExists)
    /\ [][/\ (nopen' = nopen /\ conn' # conn) => <<conn, conn'>> \in Transitions
          /\ nopen' # nopen =>
                (nopen' = nopen + 1 /\ conn \in {"unconnected", "failed"}
                                    /\ conn' = "connecting")
          /\ (conn = "connecting" /\ conn' \in {"encrypting", "open"}) =>
                (conn' = "encrypting" <=> ssl)
          /\ (openResult' = "ok" /\ openResult # "ok") => conn' = "open"
          /\ conn = "closed" => (conn' = "closed" /\ nopen' = nopen)
         ]_vars

\* A connection opened on the second attempt has been closed by its caller.
C14_Witness ==
    /\ conn = "closed" /\ nopen = 2 /\ openResult = "ok"
    /\ last.op = "close" /\ sockClosed

\* Thread t can enter the read block now; the write or close block now.
CanEnterRead(t) == ENABLED ReadAcquire(t, 1, None)
CanEnterWrite(t) ==
    IF pc[t] = "c_lock" THEN ENABLED CloseAcquire(t)
    ELSE ENABLED WriteAcquire(t, 1, None)

\* C15: at most one thread is inside the read block and at most one inside
\* the write/close block; a thread waiting for a lock that is free enters
\* whoever holds the other lock, so a reader and a writer can be inside their
\* transport calls at the same time.
C15_ExclusivePerDirection ==
    /\ [](Cardinality({t \in Threads : pc[t] \in ReadCS}) <= 1)
    /\ [](Cardinality({t \in Threads : pc[t] \in WriteCS}) <= 1)
    /\ [](\A t \in Threads :
             /\ (pc[t] = "r_lock" /\ read_lock = Free) => CanEnterRead(t)
             /\ (pc[t] \in {"w_lock", "c_lock"} /\ write_lock = Free) =>
                   CanEnterWrite(t))

\* A reader is in its recv and a writer in its send at the same time.
C15_Witness ==
    \E t, u \in Threads : pc[t] = "r_recv" /\ pc[u] = "w_send"

\* Thread t is inside the send loop of a write.
InSendLoop(t) == pc[t] \in {"w_loop", "w_send"}

\* C16: close is serialized against writes and not against reads. No step
\* releases the handle while a write is inside its send loop, so a write that
\* has had a send accepted still finds the handle open; a close waiting for a
\* free write lock enters though a read is in flight; and a recv issued on
\* the handle such a close released fails with ReadError.
C16_CloseWaitsForWritesOnly ==
    /\ [](\A t \in Threads : (InSendLoop(t) /\ call[t].sends > 0) => ~sockClosed)
    /\ [](\A t \in Threads :
             (pc[t] = "c_lock" /\ write_lock = Free) => ENABLED CloseAcquire(t))
    /\ [][\A t \in Threads :
             /\ InSendLoop(t) => (fdOpen' = fdOpen /\ conn' = conn)
             /\ (pc[t] = "r_recv" /\ sockClosed /\ pc'[t] = "idle") =>
                   last'.kind = "ReadError"
         ]_vars

\* A read called before the close is about to issue its recv on the handle
\* the close has released.
C16_Witness ==
    \E t \in Threads :
        /\ pc[t] = "r_recv" /\ ~call[t].post
        /\ sockClosed /\ last.op = "close"

\* The steps thread t takes inside a call it has made.
Progress(t) ==
    \/ \E n \in 1..MaxLen, d \in Deadlines : ReadAcquire(t, n, d)
    \/ ReadSetTimeout(t)
    \/ ReadRecv(t)
    \/ \E len \in 0..MaxLen, d \in Deadlines : WriteAcquire(t, len, d)
    \/ WriteLoop(t)
    \/ WriteSend(t)
    \/ CloseAcquire(t)
    \/ CloseSock(t)

\* SyncSocketStream(sock) shared by the threads, which make as many calls as
\* there are threads between them, at once or one after the other.
InitShared ==
    /\ nopen = 1
    /\ conn = "open"
    /\ ssl = FALSE
    /\ openResult = "ok"
    /\ fdOpen = {1}
    /\ sockTimeout = None
    /\ read_lock = Free
    /\ write_lock = Free
    /\ pc = [t \in Threads |-> "idle"]
    /\ call = [t \in Threads |-> NoCall]
    /\ last = NoResult
    /\ callers = Threads
    /\ budget = Cardinality(Threads)
    /\ ncalls = 0
    /\ peer \in Peers
    /\ inbuf = <<>>
    /\ wire = <<>>
    /\ rcvd = <<>>
    /\ written = <<>>
    /\ wfailed = FALSE

\* The life of a shared Stream whose calling threads are scheduled: a thread
\* that can take its next step takes it sooner or later.
SpecStreamFair ==
    /\ InitShared
    /\ [][NextStream]_vars
    /\ \A t \in Threads : WF_vars(Progress(t))

\* The transport call thread t is in neither returns nor fails now.
TransportBlocks(t) ==
    \/ pc[t] = "r_recv" /\ RecvOutcomes(call[t].n) = {}
    \/ pc[t] = "w_send" /\ SendOutcomes(call[t].data) = {}

\* C17: no call holds or waits for one lock of the Stream while it holds the
\* other; once every call has completed both locks are free; and, provided no
\* transport call blocks for ever, every call made completes.
C17_NoDeadlock ==
    /\ [](\A t \in Threads :
             /\ ~(read_lock = t /\ write_lock = t)
             /\ read_lock = t => pc[t] \notin {"w_lock", "c_lock"}
             /\ write_lock = t => pc[t] # "r_lock")
    /\ []((\A t \in Threads : pc[t] = "idle") =>
             (read_lock = Free /\ write_lock = Free))
    /\ (\A t \in Threads : []<>(~TransportBlocks(t))) =>
          (\A t \in Threads : (pc[t] # "idle") ~> (pc[t] = "idle"))

\* Two threads have made calls at once, one has failed, and all have completed.
C17_Witness ==
    /\ callers = Threads /\ ncalls = budget
    /\ \A t \in Threads : pc[t] = "idle"
    /\ wfailed /\ last.kind = "ok"
    /\ read_lock = Free /\ write_lock = Free

\* C18: write terminates. Every send that returns leaves strictly less to
\* send, so a write of len(data) bytes issues at most len(data) sends before
\* it returns or fails; and every send is preceded by a settimeout of the
\* call's write deadline.
C18_WriteTerminates ==
    /\ [](\A t \in Threads :
             call[t].op = "write" =>
                 call[t].sends + Len(call[t].data) <= Len(call[t].orig))
    /\ [](last.op = "write" => last.sends <= MaxLen)
    /\ [][\A t \in Threads :
             /\ (pc[t] = "w_send" /\ pc'[t] = "w_loop") =>
                   /\ Len(call'[t].data) < Len(call[t].data)
                   /\ call'[t].sends = call[t].sends + 1
             /\ (pc[t] # "w_send" /\ pc'[t] = "w_send") =>
                   (pc[t] = "w_loop" /\ sockTimeout' = call[t].d)
         ]_vars

\* A write of MaxLen bytes is about to issue its last send, one byte having
\* been accepted by each send before, under its own deadline set anew.
C18_Witness ==
    \E t \in Threads :
        /\ pc[t] = "w_send" /\ Len(call[t].orig) = MaxLen
        /\ call[t].sends = MaxLen - 1 /\ Len(call[t].data) = 1
        /\ call[t].d = 1 /\ sockTimeout = 1

\* The number of bytes the read that ends in this step returns.
Returned == Len(rcvd') - Len(rcvd)

\* C19: the layer never retries. A read leaves at its one recv and returns
\* what the recv gave: a prefix of the pending bytes no longer than max_bytes,
\* and no bytes at all, as a success, when the peer has closed with nothing
\* pending. A write whose send fails leaves at that send. An open that failed
\* at its connect or its handshake does not return to either step: only a new
\* call of the caller connects again.
C19_NeverRetries ==
    [][/\ \A t \in Threads :
            /\ (pc[t] = "r_recv" /\ pc'[t] # "r_recv") =>
                  /\ pc'[t] = "idle"
                  /\ Returned <= call[t].n
                  /\ rcvd' = rcvd \o Take(inbuf, Returned)
                  /\ inbuf = Take(inbuf, Returned) \o inbuf'
                  /\ last'.kind # "ok" => Returned = 0
            /\ (/\ pc[t] = "r_recv" /\ pc'[t] = "idle"
                /\ ~sockClosed /\ peer = "closed" /\ inbuf = <<>>) =>
                  (last'.kind = "ok" /\ Returned = 0)
            /\ (call[t].op = "read" /\ pc'[t] = "idle") =>
                  pc[t] \in {"r_settimeout", "r_recv"}
            /\ (pc[t] = "w_send" /\ pc'[t] # "w_send" /\ wire' = wire) =>
                  (pc'[t] = "idle" /\ last'.kind \in {"WriteError", "WriteTimeout"})
       /\ (nopen' = nopen /\ conn' # conn) =>
             /\ conn' # "connecting"
             /\ conn' = "encrypting" => conn = "connecting"
             /\ conn # "failed"
      ]_vars

\* A read on a connection the peer closed without sending has returned no
\* bytes, successfully.
C19_Witness ==
    /\ last.op = "read" /\ last.kind = "ok"
    /\ peer = "closed" /\ wire = <<>> /\ rcvd = <<>> /\ ~sockClosed

\* C20: deadlines carry no state between calls. With the calls made one after
\* the other, the timeout on the handle when a read issues its recv or a
\* write a send is that call's own deadline, whatever an earlier call, the
\* open included, had set; so a call without a deadline for its phase never
\* ends with the timeout kind of that phase.
C20_DeadlineIsTheCallsOwn ==
    /\ [](\A t \in Threads :
             (callers = {t} /\ pc[t] \in {"r_recv", "w_send"}) =>
                 sockTimeout = call[t].d)
    /\ []((callers = {"t1"} /\ last.op \in Transfers /\ last.d = None) =>
             last.kind # TimeoutOf(last.op))
    /\ [][(conn' = "failed" /\ conn # "failed" /\ sockTimeout = None) =>
             openResult' # "ConnectTimeout"]_vars

\* After an open with a connect deadline and a read that timed out under its
\* own, a read without a deadline is about to issue its recv with none set.
C20_Witness ==
    \E t \in Threads :
        /\ nopen = 1 /\ last.op = "read" /\ last.d = 1 /\ last.kind = "ReadTimeout"
        /\ pc[t] = "r_recv" /\ call[t].d = None /\ sockTimeout = None

====
